---- MODULE Spec2Model ----
(***************************************************************************)
(* Model of src/src/worker.js: an edge worker that proxies API requests to *)
(* a single upstream, decides CORS headers per request, caches successful  *)
(* GETs on master-data tables in the edge cache and purges them on demand. *)
(*                                                                         *)
(* The file holds two revisions of the worker: lines 1-207 (environment    *)
(* driven, with a purge secret) and lines 208-439 (the earlier one).  The  *)
(* variable rev says which of the two is deployed; it never changes.       *)
(*                                                                         *)
(* Text is modelled as a sequence of tokens: a path "/rest/v1/companies"   *)
(* is <<"/","rest","/","v1","/","companies">>, so that String.includes and *)
(* String.startsWith are contiguous-subsequence and prefix tests.  An      *)
(* absent header and an empty header value are both falsy in the code; a   *)
(* request's headers are a function whose domain is the headers it sends.  *)
(***************************************************************************)
EXTENDS Naturals, Sequences, FiniteSets, Bags, TLC

VARIABLES
  rev,       \* the deployed revision of the worker: 1 or 2
  env,       \* the worker's environment bindings
  runtime,   \* what the platform's stream objects offer
  cache,     \* caches.default: cache key -> stored response, or NoEntry
  pending,   \* cache.put calls started and not yet settled
  inflight,  \* the bag of suspended fetch() calls: each one's await and what it holds
  last,      \* the exchange a handler has just completed, or NoExchange
  purged,    \* history: keys purged with no cache.put started since
  served     \* history: keys answered with a cacheable miss and not purged since

vars == <<rev, env, runtime, cache, pending, inflight, last, purged, served>>

----------------------------------------------------------------------------
(* Text helpers *)

T(s) == <<s>>

\* String.prototype.includes on token sequences
Includes(s, p) ==
  \E i \in 0..Len(s) : i + Len(p) <= Len(s) /\ SubSeq(s, i + 1, i + Len(p)) = p

\* String.prototype.startsWith
StartsWith(s, p) == Len(p) <= Len(s) /\ SubSeq(s, 1, Len(p)) = p

\* String.prototype.toLowerCase, token by token
LowerOf(tok) ==
  CASE tok = "Dart" -> "dart"
    [] tok = "FLUTTER" -> "flutter"
    [] tok = "Flutter" -> "flutter"
    [] tok = "Mozilla" -> "mozilla"
    [] OTHER -> tok

ToLowerCase(s) == [i \in 1..Len(s) |-> LowerOf(s[i])]

\* JavaScript truthiness of a string that may be missing: "" and null are falsy
Truthy(v) == v # <<>>

\* Headers.get: the value, or the falsy <<>> when the header is not sent
Get(h, name) == IF name \in DOMAIN h THEN h[name] ELSE <<>>

Has(h, name) == name \in DOMAIN h

\* { ...a, ...b } and Headers.set of every entry of b over a
Merge(a, b) ==
  [k \in (DOMAIN a) \cup (DOMAIN b) |-> IF k \in DOMAIN b THEN b[k] ELSE a[k]]

\* Mutant of Without: the delete is forgotten.
Without_KeepsAll(a, name) == a

\* delete obj[name]
Without(a, name) == [k \in (DOMAIN a) \ {name} |-> a[k]]

NoHeaders == [k \in {} |-> <<>>]

\* String.prototype.split(",")
RECURSIVE Split(_)
Split(s) ==
  IF \A i \in 1..Len(s) : s[i] # ","
  THEN <<s>>
  ELSE LET i == CHOOSE j \in 1..Len(s) :
                  s[j] = "," /\ \A k \in 1..(j - 1) : s[k] # ","
       IN <<SubSeq(s, 1, i - 1)>> \o Split(SubSeq(s, i + 1, Len(s)))

SeqIncludes(list, x) == \E i \in 1..Len(list) : list[i] = x

----------------------------------------------------------------------------
(* Configuration *)

ACAO == "Access-Control-Allow-Origin"
ACAC == "Access-Control-Allow-Credentials"
ACAH == "Access-Control-Allow-Headers"
ACAM == "Access-Control-Allow-Methods"
ACMA == "Access-Control-Max-Age"
ACEH == "Access-Control-Expose-Headers"
ACRH == "Access-Control-Request-Headers"
CacheControl == "Cache-Control"
XCacheStatus == "X-Cache-Status"

Origin(scheme, host, port) ==
  IF port = "" THEN <<scheme, "://", host>> ELSE <<scheme, "://", host, ":", port>>

\* CONFIG.ALLOWED_ORIGINS(env) in revision 1, the constant list in revision 2
DefaultOrigins(rv) ==
  IF rv = 1
  THEN << Origin("http", "localhost", "3000"), Origin("http", "localhost", "5173"),
          Origin("https", "poysa.de", "") >>
  ELSE << Origin("http", "localhost", "3000"), Origin("http", "localhost", "5173"),
          Origin("http", "localhost", "8080"), Origin("http", "127.0.0.1", "3000"),
          Origin("https", "poysa.de", "") >>

ALLOWED_ORIGINS(rv, e) ==
  IF rv = 1 /\ Truthy(e.ALLOWED_ORIGINS)
  THEN Split(e.ALLOWED_ORIGINS)
  ELSE DefaultOrigins(rv)

StaticAllowHeaders(rv) ==
  IF rv = 1
  THEN T("Authorization,Content-Type,apikey,x-client-info,x-supabase-auth,accept-profile,content-profile,prefer,range,x-requested-with,user-agent,x-purge-secret")
  ELSE T("Authorization,Content-Type,apikey,x-client-info,x-supabase-auth,accept-profile,content-profile,prefer,range,x-requested-with,user-agent")

CORS_HEADERS(rv) ==
  (ACAM :> T("GET, POST, PATCH, DELETE, OPTIONS, PURGE, PUT")) @@
  (ACAH :> StaticAllowHeaders(rv)) @@
  (ACMA :> T("86400")) @@
  (ACEH :> T("Content-Range,Range-Unit,Content-Length,Content-Profile,Accept-Profile")) @@
  (ACAC :> T("true"))

MASTER_DATA_TABLES ==
  { "numbering_settings", "cash_bank_accounts", "chart_of_accounts", "companies",
    "customers", "financial_periods", "fixed_assets", "products", "profiles",
    "profile_kyc", "profile_references", "suppliers", "tax_group_rates",
    "tax_groups", "tax_rates", "tds_rates", "warehouses" }

\* revision 2 only (lines 249-263): table names and the RPC marker, each tested with
\* String.includes on the path
TRANSACTIONAL_ENDPOINTS ==
  { T(name) : name \in
      { "bank_reconciliations", "bill_payments", "business_proposals", "daily_logs",
        "estimate_line_taxes", "estimate_lines", "estimates",
        "inventory_movements", "invoice_payments",
        "journal_entries", "journal_lines", "journal_voucher_lines", "journal_vouchers",
        "log_attachments",
        "purchase_bill_line_taxes", "purchase_bill_lines", "purchase_bills",
        "purchase_debit_note_line_taxes", "purchase_debit_note_lines",
        "purchase_debit_notes",
        "purchase_order_line_taxes", "purchase_order_lines", "purchase_orders",
        "sales_credit_note_line_taxes", "sales_credit_note_lines", "sales_credit_notes",
        "sales_invoice_line_taxes", "sales_invoice_lines", "sales_invoices",
        "sales_targets", "tds_payments" } }
  \cup { <<"/", "rpc", "/">> }

PROXIABLE_PATHS == { <<"/", "rest", "/">>, <<"/", "auth", "/">>, <<"/", "storage", "/">> }

----------------------------------------------------------------------------
(* Helper functions of the worker *)

\* new URL(origin).hostname; "invalid" when the constructor throws
Hostname(origin) ==
  IF Len(origin) >= 3 /\ origin[2] = "://" /\ origin[1] \in {"http", "https"}
  THEN origin[3]
  ELSE "invalid"

isLocalhostOrigin(origin) ==
  IF ~Truthy(origin) THEN FALSE
  ELSE Hostname(origin) \in {"localhost", "127.0.0.1", "0.0.0.0"}

\* Mutant of isMobileApp: any User-Agent counts as a mobile runtime.
isMobileApp_AnyUserAgent(req) ==
  ~Truthy(Get(req.headers, "Origin")) \/ Truthy(Get(req.headers, "User-Agent"))

isMobileApp(req) ==
  LET origin == Get(req.headers, "Origin")
      userAgent == Get(req.headers, "User-Agent")
  IN \/ ~Truthy(origin)
     \/ Includes(ToLowerCase(userAgent), T("flutter"))
     \/ Includes(ToLowerCase(userAgent), T("dart"))

Rejected == [k \in {"rejected"} |-> T("null")]

\* Mutant of getCorsHeadersForRequest: the mobile test comes before the allowlist.
getCorsHeadersForRequest_MobileFirst(rv, e, req) ==
  LET origin == Get(req.headers, "Origin")
  IN IF isMobileApp(req) \/ ~Truthy(origin)
     THEN Merge(Without(CORS_HEADERS(rv), ACAC), ACAO :> T("*"))
     ELSE IF SeqIncludes(ALLOWED_ORIGINS(rv, e), origin) \/ isLocalhostOrigin(origin)
          THEN Merge(CORS_HEADERS(rv), ACAO :> origin)
          ELSE Rejected

\* getCorsHeadersForRequest: the CORS headers, or Rejected for the code's null
getCorsHeadersForRequest(rv, e, req) ==
  LET origin == Get(req.headers, "Origin")
      allowedOrigins == ALLOWED_ORIGINS(rv, e)
  IN IF Truthy(origin) /\ (SeqIncludes(allowedOrigins, origin) \/ isLocalhostOrigin(origin))
     THEN Merge(CORS_HEADERS(rv), ACAO :> origin)
     ELSE IF isMobileApp(req) \/ ~Truthy(origin)
          THEN Merge(Without(CORS_HEADERS(rv), ACAC), ACAO :> T("*"))
          ELSE Rejected

isMasterData(pathname) ==
  \E table \in MASTER_DATA_TABLES :
     Includes(pathname, <<"/", "rest", "/", "v1", "/", table>>)

\* line 423: TRANSACTIONAL_ENDPOINTS.some(endpoint => path.includes(endpoint))
isTransactional(pathname) ==
  \E endpoint \in TRANSACTIONAL_ENDPOINTS : Includes(pathname, endpoint)

isProxiable(pathname) == \E p \in PROXIABLE_PATHS : StartsWith(pathname, p)

----------------------------------------------------------------------------
(* Inputs *)

MaxInFlight == 2

Methods == {"GET", "POST", "OPTIONS", "PURGE"}

CompaniesPath == <<"/", "rest", "/", "v1", "/", "companies">>
InvoicesPath == <<"/", "rest", "/", "v1", "/", "sales_invoices">>
HealthPath == <<"/", "health">>
RootPath == <<"/">>
InfoPath == <<"/", "info">>

Paths == {RootPath, HealthPath, InfoPath, CompaniesPath, InvoicesPath}

\* Paths that put the path tests to work: a table whose name starts with a
\* master-data name, a master-data path under another prefix, an RPC call, and an RPC
\* marker behind a master-data path.
ProductsArchivePath == <<"/", "rest", "/", "v1", "/", "products", "_archive">>
EmbeddedPath ==
  <<"/", "storage", "/", "v1", "/", "object", "/", "rest", "/", "v1", "/", "companies">>
RpcPath == <<"/", "rest", "/", "v1", "/", "rpc", "/", "report">>
RpcMasterPath == <<"/", "rest", "/", "v1", "/", "companies", "/", "rpc", "/", "refresh">>

ClassifierPaths == {ProductsArchivePath, EmbeddedPath, RpcPath, RpcMasterPath}

AllPaths == Paths \cup ClassifierPaths

PoysaOrigin == Origin("https", "poysa.de", "")
AppOrigin == Origin("https", "app.example", "")
LoopbackOrigin == Origin("http", "localhost", "8080")

\* no Origin header, an empty one, and three origins
OriginHeaders ==
  {NoHeaders} \cup {"Origin" :> o : o \in {<<>>, PoysaOrigin, AppOrigin, LoopbackOrigin}}

UserAgentHeaders ==
  {"User-Agent" :> ua : ua \in {<<"Mozilla">>, <<"Dart", "/", "3">>}}

GoodSecret == T("s3cret")

SecretHeaders == {NoHeaders} \cup {"X-Purge-Secret" :> x : x \in {GoodSecret, T("guess")}}

RequestHeaderHeaders == {NoHeaders} \cup {ACRH :> x : x \in {<<>>, T("x-custom")}}

HeadersFor(m) ==
  { Merge(Merge(o, u), x) :
      o \in OriginHeaders, u \in UserAgentHeaders,
      x \in (CASE m = "PURGE" -> SecretHeaders
               [] m = "OPTIONS" -> RequestHeaderHeaders
               [] OTHER -> {NoHeaders}) }

RequestsOn(paths) ==
  UNION { { [method |-> m, path |-> p, headers |-> h] : p \in paths, h \in HeadersFor(m) } :
          m \in Methods }

Requests == RequestsOn(Paths)

CompleteEnv ==
  [ SUPABASE_URL |-> T("https://db.example"), SUPABASE_KEY |-> T("anon-key"),
    PURGE_SECRET |-> GoodSecret, ALLOWED_ORIGINS |-> <<>> ]

CustomOriginsEnv ==
  [CompleteEnv EXCEPT !.ALLOWED_ORIGINS = AppOrigin \o <<",">> \o LoopbackOrigin]

Envs ==
  { CompleteEnv,
    [CompleteEnv EXCEPT !.SUPABASE_URL = <<>>],
    [CompleteEnv EXCEPT !.SUPABASE_KEY = <<>>],
    [CompleteEnv EXCEPT !.PURGE_SECRET = <<>>] }

UpstreamHeaders ==
  { "Content-Type" :> T("application/json"),
    ("Content-Type" :> T("application/json")) @@ (CacheControl :> T("max-age=60")) @@
      (ACAC :> T("true")) }

UpstreamResponses ==
  { [status |-> st, headers |-> h] : st \in {200, 500}, h \in UpstreamHeaders }

----------------------------------------------------------------------------
(* Responses, cache entries, exchanges *)

Body(kind) == [kind |-> kind, purged |-> FALSE]

PurgeBody(wasPurged) == [kind |-> "purge", purged |-> wasPurged]

Response(status, headers, body) == [status |-> status, headers |-> headers, body |-> body]

NoResponse == [status |-> 0, headers |-> NoHeaders, body |-> Body("none")]

NoUpstream == [status |-> 0, headers |-> NoHeaders]

NoEntry == [kind |-> "none"]

\* the cache key of a request: its URL (the model's URLs carry no query string)
Key(req) == req.path

NoExchange == [stage |-> "none"]

NotEvaluated == [k \in {"not-evaluated"} |-> T("")]

\* What one request did, recorded when its handler ends.
Exchange(stage, req, cors, resp, lookup, calls, up, put, del, afterPurge, afterServe) ==
  [ stage |-> stage, req |-> req, cors |-> cors, resp |-> resp,
    lookup |-> lookup,        \* "none", "hit" or "miss": what cache.match gave
    upstream |-> calls,       \* number of fetch(upstreamUrl) calls
    up |-> up,                \* what the upstream answered, NoUpstream if not asked
    put |-> put,              \* a cache.put was started
    del |-> del,              \* "none", "absent" or "removed": what cache.delete did
    afterPurge |-> afterPurge, \* the lookup's key was in purged
    afterServe |-> afterServe ]  \* arrived and looked up with its key in served

Immediate(stage, req, cors, resp) ==
  Exchange(stage, req, cors, resp, "none", 0, NoUpstream, FALSE, "none", FALSE, FALSE)

----------------------------------------------------------------------------
(* The handlers *)

\* fetch, lines 120 and 337
ConfigMissing(rv, e) ==
  IF rv = 1
  THEN ~Truthy(e.SUPABASE_URL) \/ ~Truthy(e.SUPABASE_KEY) \/ ~Truthy(e.PURGE_SECRET)
  ELSE ~Truthy(e.SUPABASE_URL) \/ ~Truthy(e.SUPABASE_KEY)

ConfigErrorResponse == Response(500, NoHeaders, Body("config-error"))

OriginErrorResponse(rv) ==
  Response(403, IF rv = 1 THEN NoHeaders ELSE "Content-Type" :> T("text/plain"),
           Body("cors-error"))

\* Mutant of handleOptions: the requested headers are not echoed.
handleOptions_StaticList(req, corsHeaders) ==
  Response(204, Merge(corsHeaders, "Vary" :> T("Origin, Access-Control-Request-Headers")),
           Body("empty"))

handleOptions(req, corsHeaders) ==
  LET requestHeaders == Get(req.headers, ACRH)
  IN Response(204,
       Merge(Merge(corsHeaders,
                   IF Truthy(requestHeaders) THEN ACAH :> requestHeaders ELSE NoHeaders),
             "Vary" :> T("Origin, Access-Control-Request-Headers")),
       Body("empty"))

isStaticRoute(pathname) == pathname = HealthPath \/ pathname = RootPath

StaticResponse(corsHeaders) ==
  Response(200, Merge("Content-Type" :> T("application/json"), corsHeaders), Body("health"))

JsonHeaders(corsHeaders) == Merge(corsHeaders, "Content-Type" :> T("application/json"))

\* handlePurgeRequest, lines 81-87: revision 2 has no such check
secretRejected(rv, e, req) ==
  LET secret == Get(req.headers, "X-Purge-Secret")
  IN rv = 1 /\ (~Truthy(secret) \/ secret # e.PURGE_SECRET)

\* Mutant of purgeStep: the master-data check is left out.
purgeStep_NoTableCheck(rv, e, req) ==
  IF secretRejected(rv, e, req) THEN "PurgeSecret" ELSE "delete"

\* handlePurgeRequest up to its await: the stage that refuses, or "delete"
purgeStep(rv, e, req) ==
  IF secretRejected(rv, e, req) THEN "PurgeSecret"
  ELSE IF ~isMasterData(req.path) THEN "PurgeDenied"
  ELSE "delete"

PurgeRejection(corsHeaders) ==
  Response(403, JsonHeaders(corsHeaders), PurgeBody(FALSE))

\* fetch up to its first await: the stage that answers, or the await it stops at
dispatch(rv, e, req) ==
  IF ConfigMissing(rv, e) THEN "ConfigCheck"
  ELSE IF getCorsHeadersForRequest(rv, e, req) = Rejected THEN "OriginGate"
  ELSE IF req.method = "OPTIONS" THEN "Preflight"
  ELSE IF isStaticRoute(req.path) THEN "StaticRoutes"
  ELSE IF req.method = "PURGE" THEN purgeStep(rv, e, req)
  ELSE IF isProxiable(req.path) THEN (IF req.method = "GET" THEN "match" ELSE "fetch")
  ELSE "Fallback"

Suspends(stage) == stage \in {"match", "fetch", "delete"}

immediateResponse(rv, stage, req, corsHeaders) ==
  CASE stage = "ConfigCheck" -> ConfigErrorResponse
    [] stage = "OriginGate" -> OriginErrorResponse(rv)
    [] stage = "Preflight" -> handleOptions(req, corsHeaders)
    [] stage = "StaticRoutes" -> StaticResponse(corsHeaders)
    [] stage = "PurgeSecret" -> PurgeRejection(corsHeaders)
    [] stage = "PurgeDenied" -> PurgeRejection(corsHeaders)
    [] stage = "Fallback" -> Response(404, corsHeaders, Body("not-found"))

\* Response.ok
ok(status) == 200 <= status /\ status <= 299

\* Mutant of cacheable: every table is cached.
cacheable_AnyTable(rv, req, up) ==
  req.method = "GET" /\ (rv = 1 => ok(up.status))

\* lines 183-185 and 405-407: is the upstream response to be cached
cacheable(rv, req, up) ==
  /\ req.method = "GET"
  /\ (rv = 1 => ok(up.status))
  /\ isMasterData(req.path)

\* lines 180-196 and 401-428: the headers of the proxied response
proxyHeaders(rv, req, corsHeaders, up) ==
  LET responseHeaders == Merge(up.headers, corsHeaders)
  IN IF req.method = "GET" /\ (rv = 1 => ok(up.status))
     THEN IF isMasterData(req.path)
          THEN Merge(responseHeaders,
                     IF rv = 1
                     THEN (CacheControl :> T("public, max-age=3600")) @@
                          (XCacheStatus :> T("MISS"))
                     ELSE CacheControl :> T("public, max-age=3600"))
          ELSE IF rv = 2 /\ isTransactional(req.path)
               THEN Merge(responseHeaders,
                          CacheControl :> T("no-cache, no-store, must-revalidate"))
               ELSE Merge(responseHeaders,
                          CacheControl :> T("no-cache, no-store, must-revalidate"))
     ELSE responseHeaders

\* lines 189 and 412: new Response(upstreamResponse.body.clone(), upstreamResponse)
responseToCache(up) ==
  [kind |-> "entry", status |-> up.status, headers |-> up.headers, body |-> Body("upstream")]

\* lines 155-163 and 377-383: the response built from a stored entry
hitResponse(rv, entry, corsHeaders) ==
  Response(entry.status,
           Merge(IF rv = 1 THEN Merge(entry.headers, XCacheStatus :> T("HIT"))
                 ELSE entry.headers,
                 corsHeaders),
           entry.body)

----------------------------------------------------------------------------
(* State machine *)

InitWith(envs) ==
  /\ rev \in {1, 2}
  /\ env \in envs
  /\ runtime \in [bodyClone : BOOLEAN]
  /\ cache = [k \in AllPaths |-> NoEntry]
  /\ pending = {}
  /\ inflight = EmptyBag
  /\ last = NoExchange
  /\ purged = {}
  /\ served = {}

Init == InitWith(Envs)

InitGate == InitWith(Envs \cup {CustomOriginsEnv})

Suspend(c) == inflight (+) SetToBag({c})

Resume(c) == inflight (-) SetToBag({c})

\* A request arrives and fetch() runs to its first await or to its response.
Arrive(req) ==
  LET stage == dispatch(rev, env, req)
      corsHeaders == IF stage = "ConfigCheck" THEN NotEvaluated
                     ELSE getCorsHeadersForRequest(rev, env, req)
  IN /\ last = NoExchange
     /\ IF Suspends(stage)
        THEN /\ BagCardinality(inflight) < MaxInFlight
             /\ inflight' = Suspend(
                   [pc |-> stage, req |-> req, cors |-> corsHeaders,
                    calls |-> IF stage = "fetch" THEN 1 ELSE 0,
                    lookup |-> "none",
                    afterServe |-> (Key(req) \in served), afterPurge |-> FALSE])
             /\ last' = NoExchange
        ELSE /\ last' = Immediate(stage, req, corsHeaders,
                                  immediateResponse(rev, stage, req, corsHeaders))
             /\ UNCHANGED inflight
     /\ UNCHANGED <<rev, env, runtime, cache, pending, purged, served>>

\* await cache.match(request) settles: a hit is answered, a miss goes upstream.
CacheMatch(c) ==
  LET entry == cache[Key(c.req)]
  IN /\ last = NoExchange
     /\ c.pc = "match"
     /\ IF entry # NoEntry
        THEN /\ last' = Exchange("CacheHit", c.req, c.cors,
                                 hitResponse(rev, entry, c.cors), "hit", c.calls, NoUpstream,
                                 FALSE,
                                 "none", Key(c.req) \in purged,
                                 c.afterServe /\ Key(c.req) \in served)
             /\ inflight' = Resume(c)
        ELSE /\ last' = NoExchange
             /\ inflight' = Resume(c) (+) SetToBag({
                   [c EXCEPT !.pc = "fetch", !.calls = c.calls + 1, !.lookup = "miss",
                             !.afterPurge = (Key(c.req) \in purged),
                             !.afterServe = (c.afterServe /\ Key(c.req) \in served)]})
     /\ UNCHANGED <<rev, env, runtime, cache, pending, purged, served>>

\* await cache.match(request) rejects (the store is unavailable): the await is in no
\* try block, so fetch() rejects and no response is built.
CacheMatchFails(c) ==
  /\ last = NoExchange
  /\ c.pc = "match"
  /\ last' = Exchange("Exception", c.req, c.cors, NoResponse, "fail", c.calls, NoUpstream,
                      FALSE, "none", FALSE, c.afterServe)
  /\ inflight' = Resume(c)
  /\ UNCHANGED <<rev, env, runtime, cache, pending, purged, served>>

\* await fetch(upstreamUrl, init) settles and the rest of fetch() runs.
UpstreamRespond(c, up) ==
  LET store == cacheable(rev, c.req, up)
  IN /\ last = NoExchange
     /\ c.pc = "fetch"
     /\ inflight' = Resume(c)
     /\ IF store /\ ~runtime.bodyClone
        THEN \* upstreamResponse.body.clone is not a function: fetch() rejects
             /\ last' = Exchange("Exception", c.req, c.cors, NoResponse, c.lookup, c.calls,
                                 up, FALSE, "none", c.afterPurge, c.afterServe)
             /\ UNCHANGED <<pending, purged, served>>
        ELSE /\ last' = Exchange("Proxy", c.req, c.cors,
                                 Response(up.status, proxyHeaders(rev, c.req, c.cors, up),
                                          Body("upstream")),
                                 c.lookup, c.calls, up, store, "none",
                                 c.afterPurge, c.afterServe)
             /\ pending' = IF store
                           THEN pending \cup {[key |-> Key(c.req), entry |-> responseToCache(up)]}
                           ELSE pending
             /\ purged' = IF store THEN purged \ {Key(c.req)} ELSE purged
             /\ served' = IF store THEN served \cup {Key(c.req)} ELSE served
     /\ UNCHANGED <<rev, env, runtime, cache>>

\* A started cache.put settles: the entry is in the cache.
CachePut(p) ==
  /\ last = NoExchange
  /\ p \in pending
  /\ cache' = [cache EXCEPT ![p.key] = p.entry]
  /\ pending' = pending \ {p}
  /\ last' = NoExchange
  /\ UNCHANGED <<rev, env, runtime, inflight, purged, served>>

\* A started cache.put rejects: nothing is stored, and nobody awaits the promise.
CachePutFails(p) ==
  /\ last = NoExchange
  /\ p \in pending
  /\ pending' = pending \ {p}
  /\ last' = NoExchange
  /\ UNCHANGED <<rev, env, runtime, cache, inflight, purged, served>>

\* Mutant of cacheDelete: the purge empties the whole cache.
cacheDelete_Everything(store, key) == [k \in DOMAIN store |-> NoEntry]

\* cache.delete(key): the store without the key's entry
cacheDelete(store, key) == [store EXCEPT ![key] = NoEntry]

\* await cache.delete(cacheKeyRequest) settles and the purge is answered.
CacheDelete(c) ==
  LET wasPurged == cache[Key(c.req)] # NoEntry
  IN /\ last = NoExchange
     /\ c.pc = "delete"
     /\ cache' = cacheDelete(cache, Key(c.req))
     /\ last' = Exchange("Purge", c.req, c.cors,
                         Response(200, JsonHeaders(c.cors), PurgeBody(wasPurged)),
                         "none", c.calls, NoUpstream, FALSE,
                         IF wasPurged THEN "removed" ELSE "absent", FALSE, FALSE)
     /\ inflight' = Resume(c)
     /\ purged' = purged \cup {Key(c.req)}
     /\ served' = served \ {Key(c.req)}
     /\ UNCHANGED <<rev, env, runtime, pending>>

\* The finished response leaves the worker; last holds an exchange for one state only.
Deliver ==
  /\ last # NoExchange
  /\ last' = NoExchange
  /\ UNCHANGED <<rev, env, runtime, cache, pending, inflight, purged, served>>

\* The requests of the concurrent specification: no Origin header, one User-Agent,
\* the purge secret right or missing, on a master-data and a transactional table.
Traffic ==
  { r \in Requests :
      /\ r.method \in {"GET", "POST", "PURGE"}
      /\ r.path \in {CompaniesPath, InvoicesPath}
      /\ ~Has(r.headers, "Origin")
      /\ r.headers["User-Agent"] = <<"Mozilla">>
      /\ Get(r.headers, "X-Purge-Secret") \in {<<>>, GoodSecret} }

Next ==
  \/ \E req \in Traffic : Arrive(req)
  \/ \E c \in BagToSet(inflight) : CacheMatch(c)
  \/ \E c \in BagToSet(inflight) : CacheMatchFails(c)
  \/ \E c \in BagToSet(inflight), up \in UpstreamResponses : UpstreamRespond(c, up)
  \/ \E p \in pending : CachePut(p)
  \/ \E p \in pending : CachePutFails(p)
  \/ \E c \in BagToSet(inflight) : CacheDelete(c)
  \/ Deliver

\* Handlers running concurrently, on the requests of Traffic.
Spec == Init /\ [][Next]_vars

\* One request at a time, of every kind.
ArriveAlone(req) == inflight = EmptyBag /\ Arrive(req)

NextGate ==
  \/ \E req \in Requests : ArriveAlone(req)
  \/ \E c \in BagToSet(inflight) : CacheMatch(c)
  \/ \E c \in BagToSet(inflight) : CacheMatchFails(c)
  \/ \E c \in BagToSet(inflight), up \in UpstreamResponses : UpstreamRespond(c, up)
  \/ \E p \in pending : CachePut(p)
  \/ \E p \in pending : CachePutFails(p)
  \/ \E c \in BagToSet(inflight) : CacheDelete(c)
  \/ Deliver

SpecGate == InitGate /\ [][NextGate]_vars

\* The requests of the path specification: every method on the classifier's paths, a
\* master-data table, "/" and "/info", with no Origin or an unlisted one, a browser
\* User-Agent, and the purge secret right or missing.
PathTraffic ==
  { r \in RequestsOn(ClassifierPaths \cup {CompaniesPath, RootPath, InfoPath}) :
      /\ Get(r.headers, "Origin") \in {<<>>, AppOrigin} /\ (Has(r.headers, "Origin") => Get(r.headers, "Origin") # <<>>)
      /\ r.headers["User-Agent"] = <<"Mozilla">>
      /\ Get(r.headers, "X-Purge-Secret") \in {<<>>, GoodSecret}
      /\ ~Has(r.headers, ACRH) }

\* the upstream of the path specification always succeeds, with one set of headers
PathUpstream == { u \in UpstreamResponses : u.status = 200 /\ ~Has(u.headers, CacheControl) }

InitPaths == InitWith({CompleteEnv, [CompleteEnv EXCEPT !.SUPABASE_URL = <<>>]})

NextPaths ==
  \/ \E req \in PathTraffic : ArriveAlone(req)
  \/ \E c \in BagToSet(inflight) : CacheMatch(c)
  \/ \E c \in BagToSet(inflight) : CacheMatchFails(c)
  \/ \E c \in BagToSet(inflight), up \in PathUpstream : UpstreamRespond(c, up)
  \/ \E p \in pending : CachePut(p)
  \/ \E p \in pending : CachePutFails(p)
  \/ \E c \in BagToSet(inflight) : CacheDelete(c)
  \/ Deliver

\* One request at a time, on many paths, the upstream always succeeding.
SpecPaths == InitPaths /\ [][NextPaths]_vars

----------------------------------------------------------------------------
(* Vocabulary of the properties *)

Answered == last # NoExchange

HeaderIs(h, name, value) == Has(h, name) /\ h[name] = value

OriginOf(req) == Get(req.headers, "Origin")

Allowlisted(req) == SeqIncludes(ALLOWED_ORIGINS(rev, env), OriginOf(req))

Loopback(req) == Hostname(OriginOf(req)) \in {"localhost", "127.0.0.1", "0.0.0.0"}

MobileUserAgent(req) ==
  \/ Includes(ToLowerCase(Get(req.headers, "User-Agent")), T("flutter"))
  \/ Includes(ToLowerCase(Get(req.headers, "User-Agent")), T("dart"))

NoCacheAccess == last.lookup = "none" /\ ~last.put /\ last.del = "none"

----------------------------------------------------------------------------
(* C1 *)

\* C1: a GET on a MasterData path from a permitted caller that finds no cache entry,
\* and that the upstream answers with success, calls the upstream exactly once and is
\* answered with X-Cache-Status: MISS and Cache-Control: public, max-age=3600; and a
\* second identical GET that arrives after that response is answered from the cache,
\* with no upstream call and X-Cache-Status: HIT, also while the first request's
\* cache.put has not settled.
C1_MissThenHit ==
  (Answered /\ last.req.method = "GET" /\ isMasterData(last.req.path)
     /\ last.stage \in {"CacheHit", "Proxy", "Exception"})
  => /\ (last.lookup = "miss" /\ ok(last.up.status))
          => /\ last.upstream = 1
             /\ last.stage = "Proxy"
             /\ HeaderIs(last.resp.headers, XCacheStatus, T("MISS"))
             /\ HeaderIs(last.resp.headers, CacheControl, T("public, max-age=3600"))
     /\ last.afterServe
          => /\ last.lookup = "hit"
             /\ last.upstream = 0
             /\ HeaderIs(last.resp.headers, XCacheStatus, T("HIT"))

----------------------------------------------------------------------------
(* C2 *)

\* C2: a PURGE on a MasterData path with the correct secret answers purged:true when
\* the key had an entry and purged:false when it had none, and every lookup of that
\* key after the purge response is a miss (until a later request stores it again),
\* also when a cache.put for the key was started before the purge and settles after.
C2_PurgeThenMiss ==
  /\ (Answered /\ last.stage = "Purge")
       => /\ last.resp.body.purged = (last.del = "removed")
          /\ cache[Key(last.req)] = NoEntry
  /\ (Answered /\ last.lookup = "hit") => ~last.afterPurge

----------------------------------------------------------------------------
(* C3 *)

----------------------------------------------------------------------------
(* C4 *)

\* C4 (the configuration being complete): every PURGE request whose X-Purge-Secret is
\* missing or differs from the configured purge secret is answered 403 and deletes
\* nothing, on every path.
C4_BadSecret403 ==
  (Answered /\ ~ConfigMissing(rev, env) /\ Truthy(env.PURGE_SECRET)
     /\ last.req.method = "PURGE"
     /\ Get(last.req.headers, "X-Purge-Secret") # env.PURGE_SECRET)
  => last.resp.status = 403 /\ last.del = "none"

----------------------------------------------------------------------------
(* C5 *)

UnlistedOrigin(req) ==
  Has(req.headers, "Origin") /\ ~Allowlisted(req) /\ ~Loopback(req)

\* C5 as stated (the configuration being complete, the Origin not empty): every
\* request whose Origin header is present, not in the allowlist and not of a loopback
\* host is rejected by the origin policy and answered 403, whatever the User-Agent,
\* method and path.
C5_UnlistedOriginRejected ==
  (Answered /\ ~ConfigMissing(rev, env) /\ UnlistedOrigin(last.req)
     /\ Truthy(OriginOf(last.req)))
  => last.cors = Rejected /\ last.resp.status = 403

\* C5 amended: with the configuration complete, every request whose Origin header is
\* present and not empty, not in the allowlist and not of a loopback host, and whose
\* User-Agent contains neither "flutter" nor "dart" in any case, is rejected by the
\* origin policy and answered 403, whatever the method and path; with such a
\* User-Agent, or with an empty Origin, the policy allows "*" without credentials.
C5_UnlistedBrowserOriginRejected ==
  (Answered /\ ~ConfigMissing(rev, env) /\ UnlistedOrigin(last.req))
  => IF Truthy(OriginOf(last.req)) /\ ~MobileUserAgent(last.req)
     THEN /\ last.cors = Rejected
          /\ last.stage = "OriginGate"
          /\ last.resp.status = 403
          /\ NoCacheAccess /\ last.upstream = 0
     ELSE /\ HeaderIs(last.cors, ACAO, T("*"))
          /\ ~Has(last.cors, ACAC)
          /\ last.stage # "OriginGate"

\* An unlisted origin with a browser User-Agent is refused on a purge with the right
\* secret.
C5_Witness ==
  /\ Answered /\ OriginOf(last.req) = AppOrigin /\ ~Allowlisted(last.req)
  /\ last.req.headers["User-Agent"] = <<"Mozilla">>
  /\ last.req.method = "PURGE" /\ last.req.path = CompaniesPath
  /\ Get(last.req.headers, "X-Purge-Secret") = GoodSecret
  /\ last.stage = "OriginGate" /\ last.resp.status = 403

----------------------------------------------------------------------------
(* C6 *)

\* C6: for every request whose Origin header is in the allowlist or names a loopback
\* host, the CORS decision sets Access-Control-Allow-Origin to exactly that origin
\* and Access-Control-Allow-Credentials to true, whatever the User-Agent; the
\* response built for the request carries both.
C6_ListedOriginEchoed ==
  (Answered /\ last.cors # NotEvaluated /\ Truthy(OriginOf(last.req))
     /\ (Allowlisted(last.req) \/ Loopback(last.req)))
  => /\ HeaderIs(last.cors, ACAO, OriginOf(last.req))
     /\ HeaderIs(last.cors, ACAC, T("true"))
     /\ last.stage # "Exception"
          => /\ HeaderIs(last.resp.headers, ACAO, OriginOf(last.req))
             /\ HeaderIs(last.resp.headers, ACAC, T("true"))

\* A loopback origin outside the allowlist, sent with a mobile User-Agent, is echoed.
C6_Witness ==
  /\ Answered /\ OriginOf(last.req) = LoopbackOrigin /\ ~Allowlisted(last.req)
  /\ MobileUserAgent(last.req)
  /\ last.stage = "CacheHit"
  /\ HeaderIs(last.resp.headers, ACAO, LoopbackOrigin)

----------------------------------------------------------------------------
(* C7 *)

\* C7: for every request with no Origin header the CORS decision is
\* Access-Control-Allow-Origin: * without Access-Control-Allow-Credentials, and the
\* origin gate never rejects the request.
C7_NoOriginWildcard ==
  (Answered /\ last.cors # NotEvaluated /\ ~Has(last.req.headers, "Origin"))
  => /\ HeaderIs(last.cors, ACAO, T("*"))
     /\ ~Has(last.cors, ACAC)
     /\ last.stage # "OriginGate"

C7_Witness ==
  /\ Answered /\ ~Has(last.req.headers, "Origin")
  /\ last.req.method = "POST" /\ last.stage = "Proxy"
  /\ HeaderIs(last.cors, ACAO, T("*"))

----------------------------------------------------------------------------
(* C8 *)

NoStoreValue == T("no-cache, no-store, must-revalidate")

TransactionalGet ==
  /\ Answered /\ ~ConfigMissing(rev, env) /\ last.cors # Rejected
  /\ last.req.method = "GET" /\ isProxiable(last.req.path)
  /\ ~isMasterData(last.req.path)

----------------------------------------------------------------------------
(* C9 *)

\* C9 as stated (the configuration being complete): an OPTIONS request to any path is
\* answered 204 with no upstream call and no cache access, with
\* Access-Control-Allow-Headers equal to the caller's Access-Control-Request-Headers
\* when it sends one and to the static list otherwise.
C9_Preflight204 ==
  (Answered /\ ~ConfigMissing(rev, env) /\ last.req.method = "OPTIONS")
  => /\ last.resp.status = 204
     /\ last.upstream = 0 /\ NoCacheAccess
     /\ HeaderIs(last.resp.headers, ACAH,
                 IF Has(last.req.headers, ACRH) THEN last.req.headers[ACRH]
                 ELSE StaticAllowHeaders(rev))

\* C9 amended: an OPTIONS request to any path makes no upstream call and no cache
\* access; with the configuration complete and a caller the origin policy permits it
\* is answered 204, with Access-Control-Allow-Headers equal to the caller's
\* Access-Control-Request-Headers when that is sent and not empty, and to the static
\* list otherwise; a caller the policy rejects is answered 403, and a worker with its
\* configuration incomplete answers 500.
C9_PermittedPreflight204 ==
  (Answered /\ last.req.method = "OPTIONS")
  => /\ last.upstream = 0 /\ NoCacheAccess
     /\ IF ConfigMissing(rev, env) THEN last.resp.status = 500
        ELSE IF last.cors = Rejected THEN last.resp.status = 403
        ELSE /\ last.resp.status = 204
             /\ last.stage = "Preflight"
             /\ HeaderIs(last.resp.headers, ACAH,
                         IF Truthy(Get(last.req.headers, ACRH))
                         THEN last.req.headers[ACRH]
                         ELSE StaticAllowHeaders(rev))

\* A preflight on a master-data path that echoes the requested headers.
C9_Witness ==
  /\ Answered /\ last.req.method = "OPTIONS" /\ last.req.path = CompaniesPath
  /\ last.resp.status = 204
  /\ HeaderIs(last.resp.headers, ACAH, T("x-custom"))
  /\ cache[CompaniesPath] # NoEntry

----------------------------------------------------------------------------
(* C10 *)

\* C10: if the upstream URL, the upstream credential or the purge secret is unset,
\* every request ends with a 500 response before anything else: the origin policy is
\* not evaluated, the cache is not looked up, stored to or deleted from, and the
\* upstream is not called.
C10_ConfigMissing500 ==
  (Answered /\ (\/ ~Truthy(env.SUPABASE_URL) \/ ~Truthy(env.SUPABASE_KEY)
                \/ ~Truthy(env.PURGE_SECRET)))
  => /\ last.stage = "ConfigCheck"
     /\ last.resp.status = 500
     /\ last.cors = NotEvaluated
     /\ NoCacheAccess /\ last.upstream = 0

----------------------------------------------------------------------------
(* C11 *)

\* C11: when the cache lookup of a GET on a proxiable path fails because the store is
\* unavailable, the request is handled as a cache miss: it is forwarded to the
\* upstream and the caller receives the upstream's response, not an error.
C11_LookupFailureIsMiss ==
  (Answered /\ last.req.method = "GET" /\ isProxiable(last.req.path)
     /\ last.lookup = "fail")
  => /\ last.stage = "Proxy"
     /\ last.upstream = 1
     /\ last.resp.status = last.up.status

----------------------------------------------------------------------------
(* C12 *)

\* the CORS headers the origin policy computes for a request
CorsFor(req) == getCorsHeadersForRequest(rev, env, req)

Carries(headers, corsHeaders) ==
  \A k \in DOMAIN corsHeaders : HeaderIs(headers, k, corsHeaders[k])

\* C12: every error response the gateway produces for a caller the origin policy
\* permits (the 500 configuration error, the 403 purge rejections, the 404 of an
\* unmatched route and a proxied upstream error status) carries the CORS headers
\* computed for the request.
C12_ErrorsCarryCors ==
  (Answered /\ last.resp.status >= 400
     /\ last.stage \in {"ConfigCheck", "PurgeSecret", "PurgeDenied", "Fallback", "Proxy"}
     /\ CorsFor(last.req) # Rejected)
  => Carries(last.resp.headers, CorsFor(last.req))

----------------------------------------------------------------------------
(* C13 *)

\* C13: for every proxied request that reaches the upstream, the upstream is called
\* once and no more, and the caller is answered with the upstream's status, failure
\* statuses included.
C13_UpstreamOnceStatusPassedThrough ==
  (Answered /\ last.upstream > 0)
  => /\ last.upstream = 1
     /\ last.stage = "Proxy"
     /\ last.resp.status = last.up.status

----------------------------------------------------------------------------
(* C14 *)

\* C14: in every response the gateway emits, Access-Control-Allow-Origin: * never
\* comes with an Access-Control-Allow-Credentials header, also when the upstream's or
\* the stored entry's own headers are merged under the current CORS headers.
C14_WildcardNeverWithCredentials ==
  (Answered /\ last.stage # "Exception")
  => ~(HeaderIs(last.resp.headers, ACAO, T("*")) /\ Has(last.resp.headers, ACAC))

----------------------------------------------------------------------------
(* C15 *)

\* the path names a MasterData table as its resource: /rest/v1/<table>, alone or
\* followed by further segments
ReferencesMasterData(pathname) ==
  \E table \in MASTER_DATA_TABLES :
     /\ StartsWith(pathname, <<"/", "rest", "/", "v1", "/", table>>)
     /\ (Len(pathname) > 6 => pathname[7] = "/")

\* C15: a successful GET is classified Cacheable if and only if its path references a
\* resource that is a member of the MasterData set, so that neither a resource whose
\* name only starts with a MasterData name nor a path that embeds /rest/v1/<table>
\* under another prefix is Cacheable; the same predicate decides which paths a purge
\* with the right secret may delete.
C15_CacheableIffMasterData ==
  /\ (Answered /\ last.req.method = "GET" /\ last.stage = "Proxy" /\ ok(last.up.status)
        /\ ~Includes(last.req.path, <<"/", "rpc", "/">>))
       => /\ last.put <=> ReferencesMasterData(last.req.path)
          /\ HeaderIs(last.resp.headers, CacheControl, T("public, max-age=3600"))
               <=> ReferencesMasterData(last.req.path)
  /\ (Answered /\ last.stage \in {"Purge", "PurgeDenied"}
        /\ ~Includes(last.req.path, <<"/", "rpc", "/">>))
       => (last.stage = "Purge" <=> ReferencesMasterData(last.req.path))

----------------------------------------------------------------------------
(* C16 *)

\* C16: a GET whose path contains the RPC marker /rpc/ or a Transactional identifier
\* is answered with Cache-Control: no-cache, no-store, must-revalidate and starts no
\* cache write, also when the path contains /rest/v1/<MasterData table> as well.
C16_RpcAndTransactionalNoStore ==
  (Answered /\ last.req.method = "GET" /\ last.stage = "Proxy" /\ ok(last.up.status)
     /\ isTransactional(last.req.path))
  => /\ HeaderIs(last.resp.headers, CacheControl, NoStoreValue)
     /\ ~last.put

----------------------------------------------------------------------------
(* C17 *)

\* C17: on a cacheable GET miss that the upstream has answered, the caller is
\* answered while the cache.put is still unsettled, with the upstream's status and
\* body and the proxied headers; the put settling, failing or never settling comes
\* after the response and changes nothing of it.
C17_StoreOffTheResponsePath ==
  (Answered /\ last.req.method = "GET" /\ last.lookup = "miss"
     /\ cacheable(rev, last.req, last.up))
  => /\ last.stage = "Proxy"
     /\ last.resp = Response(last.up.status,
                             proxyHeaders(rev, last.req, last.cors, last.up),
                             Body("upstream"))
     /\ last.put
     /\ \E p \in pending : p.key = Key(last.req)

----------------------------------------------------------------------------
(* C18 *)

\* C18: every entry the gateway stores in the cache, or has handed to cache.put,
\* carries Cache-Control: public, max-age=3600, whatever Cache-Control the upstream
\* sent.
C18_EntriesCarryMaxAge ==
  /\ \A k \in AllPaths :
        cache[k] # NoEntry
        => HeaderIs(cache[k].headers, CacheControl, T("public, max-age=3600"))
  /\ \A p \in pending :
        HeaderIs(p.entry.headers, CacheControl, T("public, max-age=3600"))

----------------------------------------------------------------------------
(* C19 *)

\* C19: in every reachable state each cache entry, settled or handed to cache.put,
\* is under a proxiable MasterData path and has a success status; a request of
\* another method than GET makes no cache lookup and starts no cache store.
C19_OnlySuccessfulGetsStored ==
  /\ \A k \in AllPaths :
        cache[k] # NoEntry
        => isProxiable(k) /\ isMasterData(k) /\ ok(cache[k].status)
  /\ \A p \in pending :
        isProxiable(p.key) /\ isMasterData(p.key) /\ ok(p.entry.status)
  /\ (Answered /\ last.req.method # "GET") => last.lookup = "none" /\ ~last.put

----------------------------------------------------------------------------
(* C20 *)

TerminalStages ==
  {"ConfigCheck", "OriginGate", "Preflight", "StaticRoutes", "PurgeSecret", "PurgeDenied",
   "Fallback"}

\* C20: a request that ends at ConfigCheck, OriginGate, Preflight, StaticRoutes, a
\* refused purge or Fallback leaves the cache and the started stores as they are and
\* calls no upstream; a purge that succeeds calls no upstream and changes no cache
\* entry but the one keyed by the URL it names, which it leaves empty.
C20_FrameEffects ==
  [][ (last = NoExchange /\ last' # NoExchange)
      => /\ last'.stage \in TerminalStages
              => /\ cache' = cache /\ pending' = pending
                 /\ last'.upstream = 0
                 /\ last'.lookup = "none" /\ ~last'.put /\ last'.del = "none"
         /\ last'.stage = "Purge"
              => /\ last'.upstream = 0
                 /\ pending' = pending
                 /\ cache'[last'.req.path] = NoEntry
                 /\ \A k \in AllPaths \ {last'.req.path} : cache'[k] = cache[k] ]_vars

\* A purge has removed one entry while the cache holds another.
C20_Witness ==
  /\ Answered /\ last.stage = "Purge" /\ last.del = "removed"
  /\ last.req.path = CompaniesPath
  /\ cache[ProductsArchivePath] # NoEntry

====
